---- MODULE Spec2Model ----
(***************************************************************************)
(* Threat-intelligence dashboard (fruzzinn/ProjectT): the client-side      *)
(* result filter of the news screens and the scan polling of the phishing  *)
(* screen, as state machines.                                               *)
(*                                                                         *)
(*   SpecNews       HomePage of app/page.tsx (handleSearch, sort)          *)
(*   SpecNewsRange  HomePage of app/phishing/page.tsx (derived filter)     *)
(*   SpecPhish      PhishingDetection: filters, pages, row buttons         *)
(*   SpecScan       PhishingDetection: scan start, scan polling, teardown  *)
(*   SpecPages      PhishingDetection: the list served page by page        *)
(*   SpecThreats    ThreatsView: filters, pages, fetchThreats              *)
(*   SpecDashboard  DashboardView: the three requests of the first load    *)
(*   SpecMock       PhishingView: the mock scan and its progress           *)
(*                                                                         *)
(* Time is counted in hours since 2025-01-01T00:00Z; the last hour of a    *)
(* day stands for 23:59:59.999.                                            *)
(***************************************************************************)
EXTENDS Integers, Sequences, FiniteSets, Bags, TLC

VARIABLES
    \* ---- HomePage (both versions)
    news,              \* fetched articles
    filteredNews,      \* page.tsx: result of the last handleSearch
    selectedCategory,
    selectedSeverity,
    selectedCVE,
    timeFilter,
    startDate,
    endDate,
    useDateRange,
    tz,                \* the browser's time zone: local time = UTC + tz hours
    thrown,            \* the exception a render of HomePage has thrown, if any
    \* ---- shared by the screens
    loading,
    error,
    \* ---- PhishingDetection
    mounted,           \* "init" before the first effects, then "yes", then "no"
    criteria,          \* activeTab, timeRange, searchQuery, thresholdScore,
                       \* targetFilter, sortBy, sortOrder, currentPage
    sites,
    totalPages,
    stats,
    scanInProgress,
    scanProgress,
    scanInterval,      \* the state cell holding the poll interval's id
    intervals,         \* the browser's scheduled intervals
    inflight,          \* requests issued and not yet answered
    serverScans,       \* the backend's status of every scan it has started
    sent,              \* number of requests issued so far, by kind
    \* ---- ThreatsView and DashboardView
    threats,
    page,
    filters,
    recentThreats,
    severeThreats

homeVars == <<news, filteredNews, selectedCategory, selectedSeverity,
              selectedCVE, timeFilter, startDate, endDate, useDateRange, tz,
              thrown>>
sharedVars == <<loading, error>>
phishVars == <<mounted, criteria, sites, totalPages, stats, scanInProgress,
               scanProgress, scanInterval, intervals, inflight, serverScans,
               sent>>
viewVars == <<threats, page, filters, recentThreats, severeThreats>>
vars == <<homeVars, sharedVars, phishVars, viewVars>>

\* ------------------------------------------------------------------ bounds

\* Longest article list the server returns, the week of news apart.
MaxNews == 3

\* Most user actions on the phishing screen that send a request (a changed
\* filter control, a row button, Check URL) in one run.
MaxUserActions == 2

\* Most clicks on Start New Scan in one run.
MaxScans == 2

\* Most ticks of the poll intervals in one run.
MaxTicks == 4

\* Most records that match a query of the site list.
MaxRecords == 21

\* Most threats in an answer to a request for the recent or severe threats.
MaxListed == 2

\* ------------------------------------------------------------ JS values

\* null / undefined (a missing field)
Null == "<null>"

\* JS truthiness of a string-or-null field
Truthy(v) == v # Null /\ v # ""

\* String.prototype.toLowerCase, on the strings the model uses
toLowerCase(s) ==
    CASE s = "All" -> "all"
      [] s = "Malware" -> "malware"
      [] s = "Phishing" -> "phishing"
      [] s = "Critical" -> "critical"
      [] s = "High" -> "high"
      [] s = "CVE-2025-1" -> "cve-2025-1"
      [] OTHER -> s

\* A Date object: valid with a time value, or Invalid Date (time NaN)
ValidDate(t) == [valid |-> TRUE, time |-> t]
InvalidDate == [valid |-> FALSE, time |-> 0]

\* new Date(string): ISO strings parse (date-only forms as UTC midnight),
\* anything else gives Invalid Date
NewDate(s) ==
    CASE s = "2025-01-05" -> ValidDate(4 * 24)
      [] s = "2025-01-25" -> ValidDate(24 * 24)
      [] s = "2025-02-10" -> ValidDate(40 * 24)
      [] s = "2025-02-14T06:00:00Z" -> ValidDate(44 * 24 + 6)
      [] s = "2025-02-20" -> ValidDate(50 * 24)
      [] s = "2025-02-20T18:00:00Z" -> ValidDate(50 * 24 + 18)
      [] s = "2025-02-21T06:00:00Z" -> ValidDate(51 * 24 + 6)
      [] OTHER -> InvalidDate

\* isNaN(date.getTime())
isNaN(d) == ~d.valid

\* a >= b and a <= b on Dates: false as soon as one side is NaN
DateGe(a, b) == a.valid /\ b.valid /\ a.time >= b.time
DateLe(a, b) == a.valid /\ b.valid /\ a.time <= b.time

\* new Date() at the time of the search
Now == NewDate("2025-02-21T06:00:00Z")

\* date.setHours(23, 59, 59, 999): the end of the date's local day
setHoursEndOfDay(d, zone) ==
    IF ~d.valid THEN d
    ELSE LET local == d.time + zone
             dayStart == local - (local % 24)
         IN ValidDate(dayStart + 23 - zone)

\* ------------------------------------------------------------ HomePage data

Article(t, c, s, v, d) ==
    [title |-> t, category |-> c, severity |-> s, cve |-> v, published_date |-> d]

\* a null element of the array the server returns
nullArticle == [null |-> TRUE]

\* The articles the server may return.
NewsPool ==
    { nullArticle,
      Article("a1", "Malware", "Critical", "CVE-2025-1", "2025-02-20T18:00:00Z"),
      Article("a2", "malware", "critical", Null, "2025-02-10"),
      Article("a3", "Phishing", "High", "cve-2025-1", Null),
      Article("a4", Null, "Critical", Null, "not-a-date"),
      Article("a5", "Phishing", "Critical", Null, "2025-01-05") }

RECURSIVE SeqsOver(_, _)
\* the sequences of at most n distinct elements of S
SeqsOver(S, n) ==
    IF n = 0 THEN { <<>> }
    ELSE { <<>> } \cup
         { <<x>> \o s : x \in S, s \in SeqsOver(S, n - 1) }

Range(s) == { s[i] : i \in 1..Len(s) }

\* A longer answer: five articles of the last 30 days, three of them
\* Critical, one of those older than a week and one exactly a week old.
WeekOfNews ==
    << Article("w1", "Malware", "High", Null, "2025-02-20"),
       Article("w2", "Malware", "Critical", Null, "2025-02-10"),
       Article("w3", "Phishing", "Critical", Null, "2025-02-14T06:00:00Z"),
       Article("w4", "Phishing", "Low", Null, "2025-01-25"),
       Article("w5", "Malware", "Critical", "CVE-2025-1", "2025-02-20T18:00:00Z") >>

NewsResponses ==
    { s \in SeqsOver(NewsPool, MaxNews) : Cardinality(Range(s)) = Len(s) }
        \cup { WeekOfNews }

TimeZones == { -5, 0 }

\* what the two <input type="date"> controls are set to
StartDateInputs == { "", "2025-02-10" }
EndDateInputs == { "", "2025-02-20" }

\* ------------------------------------------------- HomePage (app/page.tsx)

\* the option lists of the three selects
categories(n) == { "All" } \cup { n[i].category : i \in { j \in 1..Len(n) : Truthy(n[j].category) } }
severities == { "All", "Critical", "High", "Medium", "Low" }
cveOptions(n) == { "All" } \cup { n[i].cve : i \in { j \in 1..Len(n) : Truthy(n[j].cve) } }
timeFilters == { "Latest", "Last Week", "Last Month", "Custom" }

\* the cutoffs of the predefined windows, from now
oneDayAgo == ValidDate(Now.time - 24)
oneWeekAgo_month == ValidDate(Now.time - 31 * 24)

oneWeekAgo == ValidDate(Now.time - 7 * 24)
\* setMonth(getMonth() - 1): the same day of January, 31 days before
oneMonthAgo == ValidDate(Now.time - 31 * 24)

\* selected === "All" || (field && field.toLowerCase() === selected.toLowerCase())
fieldMatch(field, selected) ==
    selected = "All" \/ (Truthy(field) /\ toLowerCase(field) = toLowerCase(selected))

\* the date clause of handleSearch. The debug log calls toISOString() inside
\* the try block, which throws RangeError on an Invalid Date: the catch sets
\* dateMatch to false.
dateMatch(a, tf, udr, sd, ed, zone) ==
    IF ~Truthy(a.published_date) THEN TRUE
    ELSE LET articleDate == NewDate(a.published_date)
             startDateObj == NewDate(sd)
             endDateObj == setHoursEndOfDay(NewDate(ed), zone)
         IN IF isNaN(articleDate) THEN FALSE
            ELSE IF tf = "Custom" /\ udr
                 THEN IF Truthy(sd) /\ Truthy(ed)
                      THEN DateGe(articleDate, startDateObj) /\ DateLe(articleDate, endDateObj)
                      ELSE IF Truthy(sd) THEN DateGe(articleDate, startDateObj)
                      ELSE IF Truthy(ed) THEN DateLe(articleDate, endDateObj)
                      ELSE TRUE
                 ELSE IF tf = "Latest" THEN DateGe(articleDate, oneDayAgo)
                      ELSE IF tf = "Last Week" THEN DateGe(articleDate, oneWeekAgo)
                      ELSE IF tf = "Last Month" THEN DateGe(articleDate, oneMonthAgo)
                      ELSE TRUE

\* the predicate of news.filter(...) in handleSearch
articlePasses(a, cat, sev, cve, tf, udr, sd, ed, zone) ==
    /\ a # nullArticle
    /\ fieldMatch(a.category, cat)
    /\ fieldMatch(a.severity, sev)
    /\ fieldMatch(a.cve, cve)
    /\ dateMatch(a, tf, udr, sd, ed, zone)

\* the comparator of the sort: newest first, missing or invalid dates last
compareByDate_missingFirst(a, b) ==
    IF ~Truthy(a.published_date) THEN -1
    ELSE IF ~Truthy(b.published_date) THEN 1
    ELSE NewDate(b.published_date).time - NewDate(a.published_date).time

compareByDate(a, b) ==
    IF ~Truthy(a.published_date) THEN 1
    ELSE IF ~Truthy(b.published_date) THEN -1
    ELSE LET dateA == NewDate(a.published_date)
             dateB == NewDate(b.published_date)
         IN IF isNaN(dateA) THEN 1
            ELSE IF isNaN(dateB) THEN -1
            ELSE dateB.time - dateA.time

RECURSIVE insertionPoint(_, _, _, _)
\* Array.prototype.sort on a short array is a stable binary insertion sort:
\* the place of pivot in the sorted prefix s, searched between left and right
insertionPoint(s, pivot, left, right) ==
    IF left >= right THEN left
    ELSE LET mid == left + ((right - left) \div 2)
         IN IF compareByDate(pivot, s[mid + 1]) < 0
            THEN insertionPoint(s, pivot, left, mid)
            ELSE insertionPoint(s, pivot, mid + 1, right)

RECURSIVE sortFrom(_, _)
\* the array after the elements from index i on have been inserted
sortFrom(s, i) ==
    IF i > Len(s) THEN s
    ELSE LET pivot == s[i]
             at == insertionPoint(s, pivot, 0, i - 1)
             moved == [k \in 1..Len(s) |->
                          IF k <= at THEN s[k]
                          ELSE IF k = at + 1 THEN pivot
                          ELSE IF k <= i THEN s[k - 1]
                          ELSE s[k]]
         IN sortFrom(moved, i + 1)

\* [...filtered].sort(comparator)
sortByDate_unsorted(s) == s

sortByDate(s) == sortFrom(s, 2)

\* what handleSearch stores in filteredNews
handleSearchResult(n, cat, sev, cve, tf, udr, sd, ed, zone) ==
    sortByDate(SelectSeq(n, LAMBDA a : articlePasses(a, cat, sev, cve, tf, udr, sd, ed, zone)))

\* handleSearch under the current state; it returns at once on an empty list.
\* news.filter(...) builds a new array and the sort works on a copy of it
\* ([...filtered]): the array held by news is left as it is.
handleSearch_sortsInPlace ==
    /\ news' = sortByDate(news)
    /\ filteredNews' =
        IF Len(news') = 0 THEN filteredNews
        ELSE handleSearchResult(news', selectedCategory', selectedSeverity',
                                selectedCVE', timeFilter', useDateRange',
                                startDate', endDate', tz')

handleSearch ==
    /\ news' = news
    /\ filteredNews' =
        IF Len(news') = 0 THEN filteredNews
        ELSE handleSearchResult(news', selectedCategory', selectedSeverity',
                                selectedCVE', timeFilter', useDateRange',
                                startDate', endDate', tz')

\* no render of the screen has thrown: the component tree is mounted
noThrow == [name |-> Null, response |-> <<>>]
rendered == thrown = noThrow

\* the render of HomePage reads article.category and article.cve of every
\* element of news to build the option lists: a null element makes it throw
\* TypeError, and React unmounts the tree with the state of that render
renderThrows(n) == \E i \in 1..Len(n) : n[i] = nullArticle

\* ThreatsView and DashboardView are not on screen
viewIdle ==
    /\ threats = Null
    /\ page = 1
    /\ filters = Null
    /\ recentThreats = Null
    /\ severeThreats = Null

phishIdle ==
    /\ mounted = "none"
    /\ criteria = Null
    /\ sites = Null
    /\ totalPages = 1
    /\ stats = Null
    /\ scanInProgress = FALSE
    /\ scanProgress = Null
    /\ scanInterval = 0
    /\ intervals = {}
    /\ inflight = EmptyBag
    /\ serverScans = <<>>
    /\ sent = EmptyBag

InitNews ==
    /\ news = <<>>
    /\ filteredNews = <<>>
    /\ loading = TRUE
    /\ error = Null
    /\ selectedCategory = "All"
    /\ selectedSeverity = "All"
    /\ selectedCVE = "All"
    /\ timeFilter = "Latest"
    /\ startDate = ""
    /\ endDate = ""
    /\ useDateRange = FALSE
    /\ tz \in TimeZones
    /\ thrown = noThrow
    /\ phishIdle
    /\ viewIdle

\* fetchNews, answered 2xx: setNews, setFilteredNews, setLoading(false), and
\* the [news, timeFilter, useDateRange] effect runs handleSearch
FetchNewsOk ==
    /\ rendered
    /\ loading
    /\ \E data \in NewsResponses :
        IF renderThrows(data)
        THEN /\ thrown' = [name |-> "TypeError", response |-> data]
             /\ UNCHANGED <<news, filteredNews, loading>>
        ELSE /\ news' = data
             /\ loading' = FALSE
             /\ thrown' = thrown
             /\ IF Len(data) > 0
                THEN filteredNews' = handleSearchResult(data, selectedCategory,
                         selectedSeverity, selectedCVE, timeFilter, useDateRange,
                         startDate, endDate, tz)
                ELSE filteredNews' = data
    /\ UNCHANGED <<selectedCategory, selectedSeverity, selectedCVE, timeFilter,
                   startDate, endDate, useDateRange, tz, error>>
    /\ UNCHANGED <<phishVars, viewVars>>

\* fetchNews, answered non-2xx or rejected
FetchNewsFail ==
    /\ rendered
    /\ loading
    /\ error' = "Failed to load news."
    /\ loading' = FALSE
    /\ UNCHANGED <<homeVars, phishVars, viewVars>>

\* the category select filters at once
SetSelectedCategory_refilters ==
    /\ rendered
    /\ \E c \in categories(news) :
        /\ c # selectedCategory
        /\ selectedCategory' = c
    /\ UNCHANGED <<selectedSeverity, selectedCVE, timeFilter,
                   startDate, endDate, useDateRange, tz, thrown, sharedVars, phishVars, viewVars>>
    /\ handleSearch

SetSelectedCategory ==
    /\ rendered
    /\ \E c \in categories(news) :
        /\ c # selectedCategory
        /\ selectedCategory' = c
    /\ UNCHANGED <<news, filteredNews, selectedSeverity, selectedCVE, timeFilter,
                   startDate, endDate, useDateRange, tz, thrown, sharedVars, phishVars, viewVars>>

SetSelectedSeverity ==
    /\ rendered
    /\ \E s \in severities :
        /\ s # selectedSeverity
        /\ selectedSeverity' = s
    /\ UNCHANGED <<news, filteredNews, selectedCategory, selectedCVE, timeFilter,
                   startDate, endDate, useDateRange, tz, thrown, sharedVars, phishVars, viewVars>>

SetSelectedCVE ==
    /\ rendered
    /\ \E c \in cveOptions(news) :
        /\ c # selectedCVE
        /\ selectedCVE' = c
    /\ UNCHANGED <<news, filteredNews, selectedCategory, selectedSeverity, timeFilter,
                   startDate, endDate, useDateRange, tz, thrown, sharedVars, phishVars, viewVars>>

\* the time select: setTimeFilter, setUseDateRange, then the effect
SetTimeFilter ==
    /\ rendered
    /\ \E t \in timeFilters :
        /\ t # timeFilter
        /\ timeFilter' = t
        /\ useDateRange' = (t = "Custom")
    /\ UNCHANGED <<selectedCategory, selectedSeverity, selectedCVE,
                   startDate, endDate, tz, thrown, sharedVars, phishVars, viewVars>>
    /\ handleSearch

\* the two date inputs are rendered while useDateRange holds
SetStartDate ==
    /\ rendered
    /\ useDateRange
    /\ \E d \in StartDateInputs :
        /\ d # startDate
        /\ startDate' = d
    /\ UNCHANGED <<news, filteredNews, selectedCategory, selectedSeverity, selectedCVE,
                   timeFilter, endDate, useDateRange, tz, thrown, sharedVars, phishVars, viewVars>>

SetEndDate ==
    /\ rendered
    /\ useDateRange
    /\ \E d \in EndDateInputs :
        /\ d # endDate
        /\ endDate' = d
    /\ UNCHANGED <<news, filteredNews, selectedCategory, selectedSeverity, selectedCVE,
                   timeFilter, startDate, useDateRange, tz, thrown, sharedVars, phishVars, viewVars>>

\* the Search button
SearchClick ==
    /\ rendered
    /\ UNCHANGED <<selectedCategory, selectedSeverity, selectedCVE, timeFilter,
                   startDate, endDate, useDateRange, tz, thrown, sharedVars, phishVars, viewVars>>
    /\ handleSearch

NextNews ==
    \/ FetchNewsOk
    \/ FetchNewsFail
    \/ SetSelectedCategory
    \/ SetSelectedSeverity
    \/ SetSelectedCVE
    \/ SetTimeFilter
    \/ SetStartDate
    \/ SetEndDate
    \/ SearchClick

SpecNews == InitNews /\ [][NextNews]_vars

\* ----------------------------------------- HomePage (app/phishing/page.tsx)

\* ["All", ...new Set(news.map(article => article.category))]: an article
\* without category gives an option whose value is the empty string
categoriesRange(n) ==
    { "All" } \cup { IF n[i].category = Null THEN "" ELSE n[i].category : i \in 1..Len(n) }

\* the predicate of news.filter(...): strict equality, and an article without
\* a parsable published_date is dropped before the range is looked at
articleInRange(a, cat, sev, cve, sd, ed) ==
    LET isWithinCategory == cat = "All" \/ a.category = cat
        isWithinSeverity == sev = "All" \/ a.severity = sev
        isWithinCVE == cve = "All" \/ a.cve = cve
        publishedDate == NewDate(a.published_date)
        isWithinDateRange ==
            /\ (~Truthy(sd) \/ DateLe(NewDate(sd), publishedDate))
            /\ (~Truthy(ed) \/ DateGe(NewDate(ed), publishedDate))
    IN IF ~Truthy(a.published_date) THEN FALSE
       ELSE IF isNaN(publishedDate) THEN FALSE
       ELSE isWithinCategory /\ isWithinSeverity /\ isWithinCVE /\ isWithinDateRange

\* const filteredNews = news.filter(...), recomputed by every render
renderFilteredNews ==
    filteredNews' = SelectSeq(news', LAMBDA a :
        articleInRange(a, selectedCategory', selectedSeverity', selectedCVE',
                       startDate', endDate'))

InitNewsRange ==
    /\ news = <<>>
    /\ filteredNews = <<>>
    /\ loading = TRUE
    /\ error = Null
    /\ selectedCategory = "All"
    /\ selectedSeverity = "All"
    /\ selectedCVE = "All"
    /\ timeFilter = Null
    /\ startDate = ""
    /\ endDate = ""
    /\ useDateRange = FALSE
    /\ tz = 0
    /\ thrown = noThrow
    /\ phishIdle
    /\ viewIdle

RangeFetchNewsOk ==
    /\ rendered
    /\ loading
    /\ \E data \in NewsResponses :
        IF renderThrows(data)
        THEN /\ thrown' = [name |-> "TypeError", response |-> data]
             /\ UNCHANGED <<news, filteredNews, loading>>
        ELSE /\ news' = data
             /\ loading' = FALSE
             /\ thrown' = thrown
             /\ filteredNews' = SelectSeq(data, LAMBDA a :
                    articleInRange(a, selectedCategory, selectedSeverity, selectedCVE,
                                   startDate, endDate))
    /\ UNCHANGED <<selectedCategory, selectedSeverity, selectedCVE, timeFilter,
                   startDate, endDate, useDateRange, tz, error, phishVars, viewVars>>

RangeFetchNewsFail ==
    /\ rendered
    /\ loading
    /\ error' = "Failed to load news."
    /\ loading' = FALSE
    /\ UNCHANGED <<homeVars, phishVars, viewVars>>

RangeSetCategory ==
    /\ rendered
    /\ \E c \in categoriesRange(news) :
        /\ c # selectedCategory
        /\ selectedCategory' = c
    /\ UNCHANGED <<news, selectedSeverity, selectedCVE, timeFilter,
                   startDate, endDate, useDateRange, tz, thrown, sharedVars, phishVars, viewVars>>
    /\ renderFilteredNews

RangeSetSeverity ==
    /\ rendered
    /\ \E v \in severities :
        /\ v # selectedSeverity
        /\ selectedSeverity' = v
    /\ UNCHANGED <<news, selectedCategory, selectedCVE, timeFilter,
                   startDate, endDate, useDateRange, tz, thrown, sharedVars, phishVars, viewVars>>
    /\ renderFilteredNews

RangeSetCVE ==
    /\ rendered
    /\ \E c \in cveOptions(news) :
        /\ c # selectedCVE
        /\ selectedCVE' = c
    /\ UNCHANGED <<news, selectedCategory, selectedSeverity, timeFilter,
                   startDate, endDate, useDateRange, tz, thrown, sharedVars, phishVars, viewVars>>
    /\ renderFilteredNews

RangeSetStartDate ==
    /\ rendered
    /\ \E d \in StartDateInputs :
        /\ d # startDate
        /\ startDate' = d
    /\ UNCHANGED <<news, selectedCategory, selectedSeverity, selectedCVE, timeFilter,
                   endDate, useDateRange, tz, thrown, sharedVars, phishVars, viewVars>>
    /\ renderFilteredNews

RangeSetEndDate ==
    /\ rendered
    /\ \E d \in EndDateInputs :
        /\ d # endDate
        /\ endDate' = d
    /\ UNCHANGED <<news, selectedCategory, selectedSeverity, selectedCVE, timeFilter,
                   startDate, useDateRange, tz, thrown, sharedVars, phishVars, viewVars>>
    /\ renderFilteredNews

NextNewsRange ==
    \/ RangeFetchNewsOk
    \/ RangeFetchNewsFail
    \/ RangeSetCategory
    \/ RangeSetSeverity
    \/ RangeSetCVE
    \/ RangeSetStartDate
    \/ RangeSetEndDate

SpecNewsRange == InitNewsRange /\ [][NextNewsRange]_vars

\* ------------------------------------------------ result filter: the claims

\* the article has a timestamp that parses
hasValidDate(a) == Truthy(a.published_date) /\ ~isNaN(NewDate(a.published_date))

\* the field equals the selected value up to letter case
equalUpToCase(field, selected) ==
    Truthy(field) /\ toLowerCase(field) = toLowerCase(selected)

\* page.tsx has no "all" entry in its time select: the window is "all" when
\* the custom range is chosen and neither bound is set
windowIsAll(tf, sd, ed) == tf = "Custom" /\ ~Truthy(sd) /\ ~Truthy(ed)

\* the article's timestamp lies in the selected window
inWindow(a, tf, sd, ed, zone) ==
    LET d == NewDate(a.published_date)
    IN CASE tf = "Latest" -> DateGe(d, oneDayAgo)
         [] tf = "Last Week" -> DateGe(d, oneWeekAgo)
         [] tf = "Last Month" -> DateGe(d, oneMonthAgo)
         [] OTHER -> /\ (Truthy(sd) => DateGe(d, NewDate(sd)))
                     /\ (Truthy(ed) => DateLe(d, setHoursEndOfDay(NewDate(ed), zone)))

\* the article satisfies every criterion that is not "all"
satisfiesAll(a, cat, sev, cve, tf, sd, ed, zone) ==
    /\ cat # "All" => equalUpToCase(a.category, cat)
    /\ sev # "All" => equalUpToCase(a.severity, sev)
    /\ cve # "All" => equalUpToCase(a.cve, cve)
    /\ ~windowIsAll(tf, sd, ed) => (hasValidDate(a) /\ inWindow(a, tf, sd, ed, zone))

\* a step of page.tsx in which handleSearch ran to its end
searchRan == (FetchNewsOk \/ SetTimeFilter \/ SearchClick) /\ Len(news') > 0 /\ rendered'

\* C1: after handleSearch the result holds an article if and only if the
\* article is in the source list and satisfies every criterion that is not
\* "all" (no extra and no lost records).
C1_FilterIsConjunction ==
    [][searchRan =>
        \A a \in Range(news') :
            (a \in Range(filteredNews')) <=>
                satisfiesAll(a, selectedCategory', selectedSeverity', selectedCVE',
                             timeFilter', startDate', endDate', tz')]_vars

\* C8: after handleSearch, under a window other than "all" no article with a
\* missing or unparsable timestamp is in the result, and under the window
\* "all" no article is left out on account of its timestamp.
C8_TimestampPolicy ==
    [][searchRan =>
        \A a \in Range(news') :
            ~hasValidDate(a) =>
                IF windowIsAll(timeFilter', startDate', endDate')
                THEN (a \in Range(filteredNews')) <=>
                        satisfiesAll(a, selectedCategory', selectedSeverity',
                                     selectedCVE', timeFilter', startDate', endDate', tz')
                ELSE a \notin Range(filteredNews')]_vars

\* C9: in the filter of app/phishing/page.tsx, an article whose category,
\* severity and CVE equal the selected values up to letter case, and whose
\* timestamp is in the range, is in the result.
C9_CaseInsensitiveMatch ==
    \A a \in Range(news) :
        ( /\ selectedCategory # "All" => equalUpToCase(a.category, selectedCategory)
          /\ selectedSeverity # "All" => equalUpToCase(a.severity, selectedSeverity)
          /\ selectedCVE # "All" => equalUpToCase(a.cve, selectedCVE)
          /\ hasValidDate(a)
          /\ Truthy(startDate) => DateGe(NewDate(a.published_date), NewDate(startDate))
          /\ Truthy(endDate) => DateLe(NewDate(a.published_date), NewDate(endDate)) )
        => a \in Range(filteredNews)

\* C10: in the sorted result no article with a missing or invalid timestamp
\* comes before an article with a valid one.
C10_MissingDatesSortLast ==
    \A i, j \in 1..Len(filteredNews) :
        (i < j) => ~(~hasValidDate(filteredNews[i]) /\ hasValidDate(filteredNews[j]))

\* an article without timestamp came before a dated one in the source list,
\* and both are in the result
C10_Witness ==
    \E i, j \in 1..Len(news) :
        /\ i < j
        /\ ~hasValidDate(news[i])
        /\ hasValidDate(news[j])
        /\ news[i] \in Range(filteredNews)
        /\ news[j] \in Range(filteredNews)

\* the article matches the three selects up to letter case
categoricalOk(a, cat, sev, cve) ==
    /\ cat # "All" => equalUpToCase(a.category, cat)
    /\ sev # "All" => equalUpToCase(a.severity, sev)
    /\ cve # "All" => equalUpToCase(a.cve, cve)

\* the time value of the article's timestamp
timeOf(a) == NewDate(a.published_date).time

windowDays(tf) == IF tf = "Latest" THEN 1 ELSE 7

C17_MalformedInputNeverFails ==
    [][(FetchNewsOk \/ SetTimeFilter \/ SearchClick) =>
          (thrown' = noThrow /\ error' = error)]_vars

\* the calendar day of a time value in a time zone, and the day a date
\* input names
localDay(t, zone) == (t + zone) \div 24
dayNamed(str) == NewDate(str).time \div 24

\* C18: under the custom range an article with a valid timestamp is in the
\* result if and only if it matches the three selects, is not before the
\* start date when one is set, and is dated on the end date or before it
\* when one is set (at whatever time of that day).
C18_RangeIsInclusive ==
    [][(searchRan /\ timeFilter' = "Custom") =>
        \A a \in Range(news') :
            hasValidDate(a) =>
                ((a \in Range(filteredNews')) <=>
                    /\ categoricalOk(a, selectedCategory', selectedSeverity', selectedCVE')
                    /\ Truthy(startDate') => DateGe(NewDate(a.published_date), NewDate(startDate'))
                    /\ Truthy(endDate') =>
                           localDay(timeOf(a), tz') <= dayNamed(endDate'))]_vars

\* ------------------------------------------- PhishingDetection: the screen

pageSize == 10

\* the filter state the refetch effect depends on
Criteria(tab, range, query, score, target, pageNumber) ==
    [activeTab |-> tab, timeRange |-> range, searchQuery |-> query,
     thresholdScore |-> score, targetFilter |-> target,
     sortBy |-> "first_detected", sortOrder |-> "desc", currentPage |-> pageNumber]

initialCriteria == Criteria("detected", "30", "", 60, "all", 1)

\* what the controls can be set to
activeTabs == { "detected", "mitigated", "all" }
timeRanges == { "30", "all" }
searchQueries == { "", "tamm" }
thresholdScores == { 60, 80 }
targetFilters == { "all", "login" }

\* the X-Total-Count header of a site-list answer; Null when it is absent
TotalCountHeaders == { Null, "0", "15", "n/a" }

\* parseInt: the number a decimal string writes, or NaN
Number(n) == [nan |-> FALSE, n |-> n]
NaN == [nan |-> TRUE, n |-> 0]
parseInt(str) ==
    LET ns == { n \in 0..99 : ToString(n) = str }
    IN IF ns = {} THEN NaN ELSE Number(CHOOSE n \in ns : TRUE)

\* Math.floor in the place of Math.ceil
pagesOf_floor(header) ==
    LET totalCount == parseInt(IF Truthy(header) THEN header ELSE "0")
        pages == totalCount.n \div pageSize
    IN IF totalCount.nan \/ pages = 0 THEN 1 ELSE pages

\* Math.ceil(parseInt(header || '0') / pageSize) || 1
pagesOf(header) ==
    LET totalCount == parseInt(IF Truthy(header) THEN header ELSE "0")
        pages == (totalCount.n + pageSize - 1) \div pageSize
    IN IF totalCount.nan \/ pages = 0 THEN 1 ELSE pages

\* useState([]) of sites, and a fetched page: the query it answers and
\* the records it holds
noSites == [q |-> <<>>, rows |-> <<>>]
sitesPage(q, rows) == [q |-> <<q>>, rows |-> rows]

\* useState(null) of scanProgress, and a progress snapshot
noProgress == [scan_id |-> 0, status |-> Null]
progress(id, status) == [scan_id |-> id, status |-> status]

\* the state a handler reads is that of the render it was created in;
\* scanInterval is 0 while the cell holds null
closure == [criteria |-> criteria, scanInterval |-> scanInterval]

\* a request, with the closure its continuation runs in; by and scan say
\* which handler issued it
Request(kind, by, scan, env) == [kind |-> kind, by |-> by, scan |-> scan, env |-> env]

\* the line a request leaves in the log of issued requests
logged(r) == [kind |-> r.kind, by |-> r.by, scan |-> r.scan]

one(r) == SetToBag({ r })

RECURSIVE bagOf(_)
\* the bag of the elements of a sequence
bagOf(s) == IF s = <<>> THEN EmptyBag ELSE one(Head(s)) (+) bagOf(Tail(s))

\* the number of logged requests issued by the handler named by
sentBy(by) ==
    BagCardinality([l \in { x \in BagToSet(sent) : x.by = by } |-> CopiesIn(l, sent)])

\* a request on its way: the continuation of fetchSites and of fetchStats is
\* the same code whichever handler called it
flying(r) == IF r.kind \in { "sites", "stats" } THEN [r EXCEPT !.by = "", !.scan = 0] ELSE r

\* fetch(...) is called for each request of rs
issue(rs) ==
    /\ inflight' = inflight (+) bagOf([i \in 1..Len(rs) |-> flying(rs[i])])
    /\ sent' = sent (+) bagOf([i \in 1..Len(rs) |-> logged(rs[i])])

\* request r is answered, and its continuation calls fetch(...) for rs
answer(r, rs) ==
    /\ inflight' = (inflight (-) one(r)) (+) bagOf([i \in 1..Len(rs) |-> flying(rs[i])])
    /\ sent' = sent (+) bagOf([i \in 1..Len(rs) |-> logged(rs[i])])

\* the user has actions left: the refetch effect's request on mount is none
userMayAct ==
    /\ mounted = "yes"
    /\ sentBy("effect") - 1 + sentBy("click") < MaxUserActions

pending(kind) == { r \in BagToSet(inflight) : r.kind = kind }

\* a setter of a state cell: React drops it once the screen is unmounted
set(cell, value) == IF mounted = "yes" THEN value ELSE cell

\* the requests of fetchSites and fetchStats; fetchSites builds its query
\* from the filter state of its closure, fetchStats reads no state
sitesRequest(by, scan, env) == Request("sites", by, scan, [env EXCEPT !.scanInterval = 0])
statsRequest(by, scan, env) ==
    Request("stats", by, scan, [criteria |-> initialCriteria, scanInterval |-> 0])

\* the result list, with its row buttons and its pagination, is rendered
resultsShown == mounted = "yes" /\ ~loading /\ error = Null /\ Len(sites.rows) > 0

InitPhish ==
    /\ news = <<>>
    /\ filteredNews = <<>>
    /\ selectedCategory = Null
    /\ selectedSeverity = Null
    /\ selectedCVE = Null
    /\ timeFilter = Null
    /\ startDate = ""
    /\ endDate = ""
    /\ useDateRange = FALSE
    /\ tz = 0
    /\ thrown = noThrow
    /\ loading = TRUE
    /\ error = Null
    /\ mounted = "init"
    /\ criteria = initialCriteria
    /\ sites = noSites
    /\ totalPages = 1
    /\ stats = Null
    /\ scanInProgress = FALSE
    /\ scanProgress = noProgress
    /\ scanInterval = 0
    /\ intervals = {}
    /\ inflight = EmptyBag
    /\ serverScans = <<>>
    /\ sent = EmptyBag
    /\ viewIdle

\* the first render's effects: the init effect (fetchSites, fetchStats) and
\* the refetch effect (fetchSites), both run on mount
Mount ==
    /\ mounted = "init"
    /\ mounted' = "yes"
    /\ loading' = TRUE
    /\ issue(<<sitesRequest("mount", 0, closure), statsRequest("mount", 0, closure),
               sitesRequest("effect", 0, closure)>>)
    /\ UNCHANGED <<viewVars, homeVars, error, criteria, sites, totalPages, stats, scanInProgress,
                   scanProgress, scanInterval, intervals, serverScans>>

\* a control changes the filter state; the refetch effect calls fetchSites
changeCriteria(c) ==
    /\ userMayAct
    /\ c # criteria
    /\ criteria' = c
    /\ loading' = TRUE
    /\ issue(<<sitesRequest("effect", 0, [closure EXCEPT !.criteria = c])>>)
    /\ UNCHANGED <<viewVars, homeVars, error, mounted, sites, totalPages, stats, scanInProgress,
                   scanProgress, scanInterval, intervals, serverScans>>

SetActiveTab == \E t \in activeTabs : changeCriteria([criteria EXCEPT !.activeTab = t])

SetTimeRange == \E t \in timeRanges : changeCriteria([criteria EXCEPT !.timeRange = t])

SetSearchQuery == \E q \in searchQueries : changeCriteria([criteria EXCEPT !.searchQuery = q])

SetThresholdScore == \E n \in thresholdScores : changeCriteria([criteria EXCEPT !.thresholdScore = n])

SetTargetFilter == \E t \in targetFilters : changeCriteria([criteria EXCEPT !.targetFilter = t])

\* Reset Filters: the four filters back to their defaults and page 1
ResetFilters ==
    changeCriteria([criteria EXCEPT !.timeRange = "30", !.searchQuery = "",
                                    !.thresholdScore = 60, !.targetFilter = "all",
                                    !.currentPage = 1])

\* Previous, Next and the page-number buttons
SetCurrentPage ==
    /\ resultsShown
    /\ totalPages > 1
    /\ \E p \in 1..totalPages : changeCriteria([criteria EXCEPT !.currentPage = p])

\* an answer without records is taken for a failure
fetchSitesOk_emptyIsError(r, data, header) ==
    /\ answer(r, <<>>)
    /\ sites' = set(sites, sitesPage(r.env.criteria, data))
    /\ totalPages' = set(totalPages, pagesOf(header))
    /\ error' = IF data = <<>> THEN set(error, "No phishing sites") ELSE error
    /\ loading' = set(loading, FALSE)
    /\ UNCHANGED <<viewVars, homeVars, mounted, criteria, stats, scanInProgress,
                   scanProgress, scanInterval, intervals, serverScans>>

\* a page number above the number of pages is taken for a failure
fetchSitesOk_pastLastIsError(r, data, header) ==
    /\ answer(r, <<>>)
    /\ sites' = set(sites, sitesPage(r.env.criteria, data))
    /\ totalPages' = set(totalPages, pagesOf(header))
    /\ error' = IF r.env.criteria.currentPage > pagesOf(header)
                  THEN set(error, "Page out of range") ELSE error
    /\ loading' = set(loading, FALSE)
    /\ UNCHANGED <<viewVars, homeVars, mounted, criteria, stats, scanInProgress,
                   scanProgress, scanInterval, intervals, serverScans>>

\* a 2xx answer clears the error
fetchSitesOk_clearsError(r, data, header) ==
    /\ answer(r, <<>>)
    /\ sites' = set(sites, sitesPage(r.env.criteria, data))
    /\ totalPages' = set(totalPages, pagesOf(header))
    /\ error' = set(error, Null)
    /\ loading' = set(loading, FALSE)
    /\ UNCHANGED <<viewVars, homeVars, mounted, criteria, stats, scanInProgress,
                   scanProgress, scanInterval, intervals, serverScans>>

\* the continuation of fetchSites after an answer 2xx with body data and
\* X-Total-Count header: setSites, setTotalPages, and setLoading(false)
fetchSitesOk(r, data, header) ==
    /\ answer(r, <<>>)
    /\ sites' = set(sites, sitesPage(r.env.criteria, data))
    /\ totalPages' = set(totalPages, pagesOf(header))
    /\ loading' = set(loading, FALSE)
    /\ UNCHANGED <<viewVars, homeVars, error, mounted, criteria, stats, scanInProgress,
                   scanProgress, scanInterval, intervals, serverScans>>

\* GET /api/phishing/sites answered 2xx, with any body and header
FetchSitesOk ==
    \E r \in pending("sites"), data \in { <<>>, <<1>> }, header \in TotalCountHeaders :
        fetchSitesOk(r, data, header)

\* GET /api/phishing/sites answered non-2xx, or the fetch rejected
FetchSitesFail ==
    \E r \in pending("sites") :
        /\ answer(r, <<>>)
        /\ error' = set(error, "Error fetching phishing sites")
        /\ loading' = set(loading, FALSE)
        /\ UNCHANGED <<viewVars, homeVars, mounted, criteria, sites, totalPages, stats,
                       scanInProgress, scanProgress, scanInterval, intervals,
                       serverScans>>

FetchStatsOk ==
    \E r \in pending("stats") :
        /\ answer(r, <<>>)
        /\ stats' = set(stats, "stats")
        /\ UNCHANGED <<viewVars, homeVars, sharedVars, mounted, criteria, sites, totalPages,
                       scanInProgress, scanProgress, scanInterval, intervals,
                       serverScans>>

\* the failure is logged to the console and nothing else
FetchStatsFail ==
    \E r \in pending("stats") :
        /\ answer(r, <<>>)
        /\ UNCHANGED <<viewVars, homeVars, sharedVars, mounted, criteria, sites, totalPages, stats,
                       scanInProgress, scanProgress, scanInterval, intervals,
                       serverScans>>

\* a row's Mark as Taken Down, Report and the Check URL button: one POST
rowRequest(kind) ==
    /\ userMayAct
    /\ issue(<<Request(kind, "click", 0, closure)>>)
    /\ UNCHANGED <<viewVars, homeVars, sharedVars, mounted, criteria, sites, totalPages, stats,
                   scanInProgress, scanProgress, scanInterval, intervals, serverScans>>

UpdateSiteStatus == resultsShown /\ rowRequest("update")

ReportSite == resultsShown /\ rowRequest("report")

CheckSingleUrl == rowRequest("check")

\* the POST answered 2xx: refresh the data, from the handler's closure
rowOk(kind, withStats) ==
    \E r \in pending(kind) :
        /\ answer(r, <<sitesRequest(kind, 0, r.env)>> \o
                     (IF withStats THEN <<statsRequest(kind, 0, r.env)>> ELSE <<>>))
        /\ loading' = set(loading, TRUE)
        /\ UNCHANGED <<viewVars, homeVars, error, mounted, criteria, sites, totalPages, stats,
                       scanInProgress, scanProgress, scanInterval, intervals,
                       serverScans>>

\* the POST answered non-2xx, or the fetch rejected
rowFail(kind, message) ==
    \E r \in pending(kind) :
        /\ answer(r, <<>>)
        /\ error' = set(error, message)
        /\ UNCHANGED <<viewVars, homeVars, loading, mounted, criteria, sites, totalPages, stats,
                       scanInProgress, scanProgress, scanInterval, intervals,
                       serverScans>>

UpdateOk == rowOk("update", TRUE)

UpdateFail == rowFail("update", "Error updating site")

ReportOk == rowOk("report", FALSE)

ReportFail == rowFail("report", "Error reporting site")

CheckOk == rowOk("check", FALSE)

CheckFail == rowFail("check", "Error checking URL")

\* ----------------------------------------- PhishingDetection: the scan poll

terminalStatuses == { "completed", "error" }

\* Start New Scan (disabled while scanInProgress): setScanInProgress(true)
\* and POST /api/phishing/scan
StartScan ==
    /\ mounted = "yes"
    /\ sentBy("startScan") < MaxScans
    /\ ~scanInProgress
    /\ scanInProgress' = TRUE
    /\ issue(<<Request("scan", "startScan", 0, closure)>>)
    /\ UNCHANGED <<viewVars, homeVars, sharedVars, mounted, criteria, sites, totalPages, stats,
                   scanProgress, scanInterval, intervals, serverScans>>

\* POST /api/phishing/scan answered 2xx: the backend has started scan number
\* id; setScanProgress, setInterval, setScanInterval. The interval's callback
\* calls the checkScanProgress of the render startScan was clicked in.
ScanStartOk ==
    \E r \in pending("scan") :
        LET id == Len(serverScans) + 1
        IN /\ answer(r, <<>>)
           /\ serverScans' = Append(serverScans, "running")
           /\ scanProgress' = set(scanProgress, progress(id, "running"))
           /\ intervals' = intervals \cup { [id |-> id, scan |-> id, env |-> r.env] }
           /\ scanInterval' = set(scanInterval, id)
           /\ UNCHANGED <<viewVars, homeVars, sharedVars, mounted, criteria, sites, totalPages,
                          stats, scanInProgress>>

\* POST /api/phishing/scan answered non-2xx, or the fetch rejected
ScanStartFail_staysInProgress ==
    \E r \in pending("scan") :
        /\ answer(r, <<>>)
        /\ error' = set(error, "Error starting scan")
        /\ UNCHANGED <<viewVars, homeVars, loading, mounted, criteria, sites, totalPages, stats,
                       scanInProgress, scanProgress, scanInterval, intervals,
                       serverScans>>

ScanStartFail ==
    \E r \in pending("scan") :
        /\ answer(r, <<>>)
        /\ error' = set(error, "Error starting scan")
        /\ scanInProgress' = set(scanInProgress, FALSE)
        /\ UNCHANGED <<viewVars, homeVars, loading, mounted, criteria, sites, totalPages, stats,
                       scanProgress, scanInterval, intervals, serverScans>>

\* the backend finishes a scan
ServerScanEnds ==
    \E id \in 1..Len(serverScans), status \in terminalStatuses :
        /\ serverScans[id] = "running"
        /\ serverScans' = [serverScans EXCEPT ![id] = status]
        /\ UNCHANGED <<viewVars, homeVars, sharedVars, mounted, criteria, sites, totalPages, stats,
                       scanInProgress, scanProgress, scanInterval, intervals, inflight,
                       sent>>

\* a tick of a scheduled interval: checkScanProgress(scan_id) sends
\* GET /api/phishing/scan/{id}
Tick ==
    \E i \in intervals :
        /\ sentBy("tick") < MaxTicks
        /\ issue(<<Request("poll", "tick", i.scan, i.env)>>)
        /\ UNCHANGED <<viewVars, homeVars, sharedVars, mounted, criteria, sites, totalPages, stats,
                       scanInProgress, scanProgress, scanInterval, intervals,
                       serverScans>>

\* if (scanInterval) { clearInterval(scanInterval); setScanInterval(null) },
\* with the scanInterval of the handler's closure
clearCaptured(env) ==
    /\ intervals' = IF env.scanInterval # 0
                    THEN { i \in intervals : i.id # env.scanInterval }
                    ELSE intervals
    /\ scanInterval' = IF env.scanInterval # 0 THEN set(scanInterval, 0)
                       ELSE scanInterval

\* the poll answered 2xx with a status that is not terminal
PollRunning ==
    \E r \in pending("poll") :
        /\ serverScans[r.scan] \notin terminalStatuses
        /\ answer(r, <<>>)
        /\ scanProgress' = set(scanProgress, progress(r.scan, serverScans[r.scan]))
        /\ UNCHANGED <<viewVars, homeVars, sharedVars, mounted, criteria, sites, totalPages, stats,
                       scanInProgress, scanInterval, intervals, serverScans>>

\* the poll answered 2xx with "completed" or "error": stop polling and
\* refresh the data (fetchSites, fetchStats)
PollTerminal ==
    \E r \in pending("poll") :
        /\ serverScans[r.scan] \in terminalStatuses
        /\ answer(r, <<sitesRequest("poll", r.scan, r.env), statsRequest("poll", r.scan, r.env)>>)
        /\ scanProgress' = set(scanProgress, progress(r.scan, serverScans[r.scan]))
        /\ clearCaptured(r.env)
        /\ scanInProgress' = set(scanInProgress, FALSE)
        /\ loading' = set(loading, TRUE)
        /\ UNCHANGED <<viewVars, homeVars, error, mounted, criteria, sites, totalPages, stats,
                       serverScans>>

\* the poll answered non-2xx, or the fetch rejected
PollFail ==
    \E r \in pending("poll") :
        /\ answer(r, <<>>)
        /\ clearCaptured(r.env)
        /\ scanInProgress' = set(scanInProgress, FALSE)
        /\ UNCHANGED <<viewVars, homeVars, sharedVars, mounted, criteria, sites, totalPages, stats,
                       scanProgress, serverScans>>

\* navigation away: the init effect's cleanup runs with the scanInterval of
\* the first render, which is null
Unmount ==
    /\ mounted = "yes"
    /\ mounted' = "no"
    /\ intervals' = LET captured == 0
                    IN IF captured # 0 THEN { i \in intervals : i.id # captured }
                       ELSE intervals
    /\ UNCHANGED <<viewVars, homeVars, sharedVars, criteria, sites, totalPages, stats,
                   scanInProgress, scanProgress, scanInterval, inflight, serverScans,
                   sent>>

\* the screen while it stays mounted and nobody starts a scan: filters,
\* pages, row buttons, Check URL
NextPhish ==
    \/ Mount
    \/ SetActiveTab
    \/ SetTimeRange
    \/ SetSearchQuery
    \/ SetThresholdScore
    \/ SetTargetFilter
    \/ ResetFilters
    \/ SetCurrentPage
    \/ FetchSitesOk
    \/ FetchSitesFail
    \/ FetchStatsOk
    \/ FetchStatsFail
    \/ UpdateSiteStatus
    \/ ReportSite
    \/ CheckSingleUrl
    \/ UpdateOk
    \/ UpdateFail
    \/ ReportOk
    \/ ReportFail
    \/ CheckOk
    \/ CheckFail

SpecPhish == InitPhish /\ [][NextPhish]_vars

\* the screen with its scan button, the filters left alone; the answers to
\* the list and statistics requests write none of the scan's cells and are
\* still on their way
NextScan ==
    \/ Mount
    \/ StartScan
    \/ ScanStartOk
    \/ ScanStartFail
    \/ ServerScanEnds
    \/ Tick
    \/ PollRunning
    \/ PollTerminal
    \/ PollFail
    \/ Unmount

SpecScan == InitPhish /\ [][NextScan]_vars

\* ------------------------------------- PhishingDetection: the pages served

\* the filtered, sorted result of a query: records 1..n in their order
Collections == { [i \in 1..n |-> i] : n \in 0..MaxRecords }

\* the backend's page of a result: pages are counted from 1 and hold size
\* records; a page past the last record is empty
pageOfRecords(R, pageNumber, size) ==
    LET first == (pageNumber - 1) * size + 1
        last == IF pageNumber * size < Len(R) THEN pageNumber * size ELSE Len(R)
    IN IF first > last THEN <<>> ELSE SubSeq(R, first, last)

\* GET /api/phishing/sites answered by the backend with the requested page
\* of result R and the number of its records in X-Total-Count
served(r, R) ==
    fetchSitesOk(r, pageOfRecords(R, r.env.criteria.currentPage, pageSize),
                 ToString(Len(R)))

ServeSites == \E r \in pending("sites"), R \in Collections : served(r, R)

\* the list and its controls, every request answered by the backend; the
\* statistics are still on their way
NextPages ==
    \/ Mount
    \/ SetSearchQuery
    \/ ResetFilters
    \/ SetCurrentPage
    \/ ServeSites

SpecPages == InitPhish /\ [][NextPages]_vars

\* ------------------------------------------------------------ ThreatsView

\* useState of filters
defaultFilters ==
    [category |-> "", severity |-> "", min_severity_score |-> "", days |-> "30",
     cve |-> "", search |-> ""]

\* the filter inputs that are used, and what they can be set to
FilterValues == [severity |-> { "", "Critical" }, search |-> { "", "apt" }]

\* data.total of an answer of GET /api/threats: a number, or NaN for an
\* answer without the field (undefined / 10 is NaN)
ThreatTotals == { Number(0), Number(15), NaN }

\* Math.ceil(data.total / 10)
ceilOfTenth(total) ==
    IF total.nan THEN NaN ELSE Number((total.n + 9) \div 10)

\* totalPages > 1, false for NaN
moreThanOnePage == ~totalPages.nan /\ totalPages.n > 1

\* useState([]) of threats, and a fetched page: the query it answers and
\* its records
noThreats == [q |-> <<>>, rows |-> <<>>]
threatsPage(q, results) == [q |-> <<q>>, rows |-> results]

\* the request of fetchThreats, built from page and filters of its render
threatsRequest(p, f) == Request("threats", "effect", 0, [page |-> p, filters |-> f])

InitThreats ==
    /\ news = <<>>
    /\ filteredNews = <<>>
    /\ selectedCategory = Null
    /\ selectedSeverity = Null
    /\ selectedCVE = Null
    /\ timeFilter = Null
    /\ startDate = ""
    /\ endDate = ""
    /\ useDateRange = FALSE
    /\ tz = 0
    /\ thrown = noThrow
    /\ loading = TRUE
    /\ error = Null
    /\ mounted = "init"
    /\ criteria = Null
    /\ sites = Null
    /\ totalPages = Number(1)
    /\ stats = Null
    /\ scanInProgress = FALSE
    /\ scanProgress = Null
    /\ scanInterval = 0
    /\ intervals = {}
    /\ inflight = EmptyBag
    /\ serverScans = <<>>
    /\ sent = EmptyBag
    /\ threats = noThreats
    /\ page = 1
    /\ filters = defaultFilters
    /\ recentThreats = Null
    /\ severeThreats = Null

\* what a ThreatsView action leaves alone besides the cells it names
threatsFrame ==
    UNCHANGED <<homeVars, criteria, sites, stats, scanInProgress, scanProgress,
                scanInterval, intervals, serverScans, recentThreats, severeThreats>>

\* the first render: the [page, filters] effect calls fetchThreats
ThreatsMount ==
    /\ mounted = "init"
    /\ mounted' = "yes"
    /\ loading' = TRUE
    /\ issue(<<threatsRequest(page, filters)>>)
    /\ UNCHANGED <<error, totalPages, threats, page, filters>>
    /\ threatsFrame

\* page and filters are set in one event handler: one render follows, and
\* its [page, filters] effect calls the fetchThreats of that render
setPageAndFilters(p, f) ==
    /\ userMayAct
    /\ page' = p
    /\ filters' = f
    /\ loading' = TRUE
    /\ issue(<<threatsRequest(p, f)>>)
    /\ UNCHANGED <<error, mounted, totalPages, threats>>
    /\ threatsFrame

\* a filter input keeps the page it was on
HandleFilterChange_keepsPage ==
    \E name \in DOMAIN FilterValues :
        \E value \in FilterValues[name] :
            /\ value # filters[name]
            /\ setPageAndFilters(page, [filters EXCEPT ![name] = value])

\* handleFilterChange: setFilters(prev => ({...prev, [name]: value})) and
\* setPage(1)
HandleFilterChange ==
    \E name \in DOMAIN FilterValues :
        \E value \in FilterValues[name] :
            /\ value # filters[name]
            /\ setPageAndFilters(1, [filters EXCEPT ![name] = value])

\* clearFilters: setFilters of a new object, which reruns the effect even
\* when no filter was set, and setPage(1)
ClearFilters == setPageAndFilters(1, defaultFilters)

\* the result list and, with more than one page, its pagination are rendered
threatsShown == mounted = "yes" /\ ~loading /\ error = Null

\* Previous: setPage(prev => Math.max(prev - 1, 1)), disabled on page 1
PreviousPage ==
    /\ threatsShown
    /\ moreThanOnePage
    /\ page # 1
    /\ setPageAndFilters(IF page - 1 > 1 THEN page - 1 ELSE 1, filters)

\* Next: setPage(prev => Math.min(prev + 1, totalPages)), disabled on the
\* last page; a page number left as it is reruns no effect
NextPage ==
    /\ threatsShown
    /\ moreThanOnePage
    /\ page # totalPages.n
    /\ (IF page + 1 < totalPages.n THEN page + 1 ELSE totalPages.n) # page
    /\ setPageAndFilters(IF page + 1 < totalPages.n THEN page + 1 ELSE totalPages.n,
                         filters)

\* GET /api/threats answered 2xx: setThreats(data.results),
\* setTotalPages(Math.ceil(data.total / 10)), setLoading(false)
FetchThreatsOk ==
    \E r \in pending("threats"), results \in { <<>>, <<1>> }, total \in ThreatTotals :
        /\ answer(r, <<>>)
        /\ threats' = set(threats, threatsPage(r.env, results))
        /\ totalPages' = set(totalPages, ceilOfTenth(total))
        /\ loading' = set(loading, FALSE)
        /\ UNCHANGED <<error, mounted, page, filters>>
        /\ threatsFrame

\* GET /api/threats answered non-2xx, or the fetch rejected
FetchThreatsFail ==
    \E r \in pending("threats") :
        /\ answer(r, <<>>)
        /\ error' = set(error, "Failed to load threats. Please check if the API server is running.")
        /\ loading' = set(loading, FALSE)
        /\ UNCHANGED <<mounted, totalPages, threats, page, filters>>
        /\ threatsFrame

NextThreats ==
    \/ ThreatsMount
    \/ HandleFilterChange
    \/ ClearFilters
    \/ PreviousPage
    \/ NextPage
    \/ FetchThreatsOk
    \/ FetchThreatsFail

SpecThreats == InitThreats /\ [][NextThreats]_vars

\* ---------------------------------------------------------- DashboardView

\* the bodies of the answers: statistics, and lists of threats
StatsAnswers == { "{total_threats: 0}", "{total_threats: 7}" }
ThreatLists == UNION { [1..n -> { "t1", "t2" }] : n \in 0..MaxListed }

\* fetchDashboardData awaiting the answer to its request number awaiting
\* (stats, recent, severe), allOk telling whether every answer so far was 2xx
dashboardRequest(awaiting, allOk) ==
    Request("dashboard", "mount", 0, [awaiting |-> awaiting, allOk |-> allOk])

InitDashboard ==
    /\ news = <<>>
    /\ filteredNews = <<>>
    /\ selectedCategory = Null
    /\ selectedSeverity = Null
    /\ selectedCVE = Null
    /\ timeFilter = Null
    /\ startDate = ""
    /\ endDate = ""
    /\ useDateRange = FALSE
    /\ tz = 0
    /\ thrown = noThrow
    /\ loading = TRUE
    /\ error = Null
    /\ mounted = "init"
    /\ criteria = Null
    /\ sites = Null
    /\ totalPages = 1
    /\ stats = Null
    /\ scanInProgress = FALSE
    /\ scanProgress = Null
    /\ scanInterval = 0
    /\ intervals = {}
    /\ inflight = EmptyBag
    /\ serverScans = <<>>
    /\ sent = EmptyBag
    /\ threats = Null
    /\ page = 1
    /\ filters = Null
    /\ recentThreats = <<>>
    /\ severeThreats = <<>>

\* what a DashboardView action leaves alone besides the cells it names
dashboardFrame ==
    UNCHANGED <<homeVars, criteria, sites, totalPages, scanInProgress, scanProgress,
                scanInterval, intervals, serverScans, threats, page, filters>>

\* the [] effect: setLoading(true) and the first fetch
DashboardMount ==
    /\ mounted = "init"
    /\ mounted' = "yes"
    /\ loading' = TRUE
    /\ issue(<<dashboardRequest(1, TRUE)>>)
    /\ UNCHANGED <<error, stats, recentThreats, severeThreats>>
    /\ dashboardFrame

\* the statistics are stored as soon as their answer is there
DashboardNextFetch_storesAtOnce ==
    \E r \in pending("dashboard"), ok \in BOOLEAN, statsData \in StatsAnswers :
        /\ r.env.awaiting < 3
        /\ answer(r, <<dashboardRequest(r.env.awaiting + 1, r.env.allOk /\ ok)>>)
        /\ stats' = IF r.env.awaiting = 1 /\ ok THEN set(stats, statsData) ELSE stats
        /\ UNCHANGED <<sharedVars, mounted, recentThreats, severeThreats>>
        /\ dashboardFrame

\* the first or second fetch resolves, 2xx or not: the next fetch is sent
DashboardNextFetch ==
    \E r \in pending("dashboard"), ok \in BOOLEAN :
        /\ r.env.awaiting < 3
        /\ answer(r, <<dashboardRequest(r.env.awaiting + 1, r.env.allOk /\ ok)>>)
        /\ UNCHANGED <<sharedVars, mounted, stats, recentThreats, severeThreats>>
        /\ dashboardFrame

\* the third fetch resolves 2xx after two 2xx answers and the three bodies
\* parse: setStats, setRecentThreats, setSevereThreats, setLoading(false)
DashboardLoaded ==
    \E r \in pending("dashboard"), statsData \in StatsAnswers,
       recentData \in ThreatLists, severeData \in ThreatLists :
        /\ r.env.awaiting = 3
        /\ r.env.allOk
        /\ answer(r, <<>>)
        /\ stats' = set(stats, statsData)
        /\ recentThreats' = set(recentThreats, recentData)
        /\ severeThreats' = set(severeThreats, severeData)
        /\ loading' = set(loading, FALSE)
        /\ UNCHANGED <<error, mounted>>
        /\ dashboardFrame

\* a fetch rejects, or after the third answer one of the three is not 2xx
\* or a body does not parse: the catch and the finally
DashboardFailed ==
    \E r \in pending("dashboard") :
        /\ answer(r, <<>>)
        /\ error' = set(error, "Failed to load dashboard data. Please check if the API server is running.")
        /\ loading' = set(loading, FALSE)
        /\ UNCHANGED <<mounted, stats, recentThreats, severeThreats>>
        /\ dashboardFrame

\* another tab is selected: DashboardView is unmounted
DashboardUnmount ==
    /\ mounted = "yes"
    /\ mounted' = "no"
    /\ UNCHANGED <<sharedVars, stats, recentThreats, severeThreats, inflight, sent>>
    /\ dashboardFrame

NextDashboard ==
    \/ DashboardMount
    \/ DashboardNextFetch
    \/ DashboardLoaded
    \/ DashboardFailed
    \/ DashboardUnmount

SpecDashboard == InitDashboard /\ [][NextDashboard]_vars

\* ------------------------------------------- PhishingView: the mock scan

\* Math.random() * 15, in whole percents
Increments == { 0, 4, 14 }

\* a timer of the browser: the progress interval of a scan, or the timeout
\* that ends it
timer(id, kind) == [id |-> id, kind |-> kind]

\* the screen is on, with its scan button; the mock site list and its
\* filters are left out
InitMock ==
    /\ news = <<>>
    /\ filteredNews = <<>>
    /\ selectedCategory = Null
    /\ selectedSeverity = Null
    /\ selectedCVE = Null
    /\ timeFilter = Null
    /\ startDate = ""
    /\ endDate = ""
    /\ useDateRange = FALSE
    /\ tz = 0
    /\ thrown = noThrow
    /\ loading = TRUE
    /\ error = Null
    /\ mounted = "yes"
    /\ criteria = Null
    /\ sites = Null
    /\ totalPages = 1
    /\ stats = Null
    /\ scanInProgress = FALSE
    /\ scanProgress = 0
    /\ scanInterval = 0
    /\ intervals = {}
    /\ inflight = EmptyBag
    /\ serverScans = <<>>
    /\ sent = EmptyBag
    /\ viewIdle

\* what a mock scan action leaves alone besides the cells it names
mockFrame ==
    UNCHANGED <<homeVars, sharedVars, viewVars, criteria, sites, totalPages, stats,
                scanInterval, inflight, serverScans>>

\* Start New Scan (disabled while scanInProgress): setScanInProgress(true),
\* setScanProgress(0), setInterval
MockStartScan ==
    /\ mounted = "yes"
    /\ ~scanInProgress
    /\ sentBy("startScan") < MaxScans
    /\ scanInProgress' = TRUE
    /\ scanProgress' = 0
    /\ intervals' = intervals \cup { timer(sentBy("startScan") + 1, "interval") }
    /\ sent' = sent (+) one([kind |-> "scan", by |-> "startScan", scan |-> 0])
    /\ UNCHANGED mounted
    /\ mockFrame

\* the interval is left running when progress reaches 100
MockTick_noClear ==
    \E t \in intervals, inc \in Increments :
        /\ t.kind = "interval"
        /\ IF mounted = "yes" /\ scanProgress + inc >= 100
           THEN /\ scanProgress' = 100
                /\ intervals' = intervals \cup { timer(t.id, "timeout") }
           ELSE /\ scanProgress' = set(scanProgress, scanProgress + inc)
                /\ intervals' = intervals
        /\ UNCHANGED <<mounted, scanInProgress, sent>>
        /\ mockFrame

\* a tick of the interval: the updater of setScanProgress adds the random
\* increment; at 100 or more it clears the interval, schedules the timeout
\* and returns 100. React does not run the updater of an unmounted screen.
MockTick ==
    \E t \in intervals, inc \in Increments :
        /\ t.kind = "interval"
        /\ IF mounted = "yes" /\ scanProgress + inc >= 100
           THEN /\ scanProgress' = 100
                /\ intervals' = (intervals \ { t }) \cup { timer(t.id, "timeout") }
           ELSE /\ scanProgress' = set(scanProgress, scanProgress + inc)
                /\ intervals' = intervals
        /\ UNCHANGED <<mounted, scanInProgress, sent>>
        /\ mockFrame

\* the timeout of 500 ms: setScanInProgress(false)
MockTimeout ==
    \E t \in intervals :
        /\ t.kind = "timeout"
        /\ intervals' = intervals \ { t }
        /\ scanInProgress' = set(scanInProgress, FALSE)
        /\ UNCHANGED <<mounted, scanProgress, sent>>
        /\ mockFrame

\* another tab is selected: PhishingView is unmounted; no cleanup clears
\* the interval
MockUnmount ==
    /\ mounted = "yes"
    /\ mounted' = "no"
    /\ UNCHANGED <<scanInProgress, scanProgress, intervals, sent>>
    /\ mockFrame

NextMock ==
    \/ MockStartScan
    \/ MockTick
    \/ MockTimeout
    \/ MockUnmount

SpecMock == InitMock /\ [][NextMock]_vars

\* ------------------------------------------------- the claims on the scan

scanIds == 1..Len(serverScans)

\* the number of requests of a kind that a handler has issued for scan s
sentFor(kind, by, s) == CopiesIn([kind |-> kind, by |-> by, scan |-> s], sent)

\* a poll answer has reported a terminal status for scan s and it is shown
terminalShown(s) == scanProgress.scan_id = s /\ scanProgress.status \in terminalStatuses

\* the poll request that this step takes out of the requests in flight
answeredPolls == { r \in pending("poll") : inflight' = inflight (-) one(r) }

\* C2: once a poll answer has reported "completed" or "error" for a scan, no
\* further GET /api/phishing/scan/{id} is issued for that scan.
C2_PollStopsAtTerminal ==
    [][\A s \in scanIds :
         terminalShown(s) => sentFor("poll", "tick", s)' = sentFor("poll", "tick", s)]_vars

\* C3: a poll answer that reports a running scan triggers no data refresh,
\* and whenever a terminal status of a scan is shown, fetchSites and
\* fetchStats have been triggered for that scan exactly once.
C3_OneRefreshPerScan ==
    [][\A s \in scanIds :
         /\ PollRunning => /\ sentFor("sites", "poll", s)' = sentFor("sites", "poll", s)
                           /\ sentFor("stats", "poll", s)' = sentFor("stats", "poll", s)
         /\ terminalShown(s)' => /\ sentFor("sites", "poll", s)' = 1
                                 /\ sentFor("stats", "poll", s)' = 1]_vars

\* C4: a failed poll of a scan leaves no interval polling that scan, and
\* scanInProgress false.
C4_FailedPollStopsPolling ==
    [][(PollFail /\ mounted = "yes") =>
         \A r \in answeredPolls :
             /\ { i \in intervals' : i.scan = r.scan } = {}
             /\ scanInProgress' = FALSE]_vars

\* C5: after the screen is unmounted no interval ticks, so no poll request
\* is issued any more.
C5_TeardownCancelsPoll ==
    [][mounted = "no" => /\ intervals = {}
                         /\ sentBy("tick")' = sentBy("tick")]_vars

\* ------------------------------------------- the claims on the data fetches

\* the number of site-list fetches issued by the two effects
effectFetches ==
    BagCardinality([l \in { x \in BagToSet(sent) : x.kind = "sites" /\ x.by \in { "mount", "effect" } }
                      |-> CopiesIn(l, sent)])

\* the number of site-list fetches issued at all
sitesFetches ==
    BagCardinality([l \in { x \in BagToSet(sent) : x.kind = "sites" } |-> CopiesIn(l, sent)])

\* a step that is followed by a refresh of the list: the terminal poll answer,
\* and the 2xx answers to a status update, a report and a URL check
refreshStep == PollTerminal \/ UpdateOk \/ ReportOk \/ CheckOk

\* C6: the initial load issues exactly one site-list fetch, each change of
\* the filter criteria exactly one, and nothing else but a refresh any.
C6_OneFetchPerLoadAndChange ==
    [][/\ effectFetches' - effectFetches =
            IF mounted = "init" /\ mounted' = "yes" THEN 1
            ELSE IF criteria' # criteria THEN 1 ELSE 0
       /\ ~refreshStep => sitesFetches' - sitesFetches = effectFetches' - effectFetches]_vars

\* a request of the screen answered non-2xx, or its fetch rejected
requestFails ==
    \/ FetchSitesFail
    \/ FetchStatsFail
    \/ ScanStartFail
    \/ PollFail
    \/ UpdateFail
    \/ ReportFail

\* C7: every failed request of the mounted screen leaves error set to a
\* message, and no request is issued in its place.
C7_FailureBecomesMessage ==
    [][(requestFails /\ mounted = "yes") => (error' # Null /\ sent' = sent)]_vars

\* ------------------------------------------- more claims on the scan

\* the poll request that this step answers
answeredPoll(r) ==
    r \in pending("poll") /\ CopiesIn(r, inflight') = CopiesIn(r, inflight) - 1

\* C19: from the click on Start New Scan on, scanInProgress stays true until
\* the start fails or a poll of the scan that was started reports a terminal
\* status or fails.
C19_InProgressUntilScanEnds ==
    [][(scanInProgress /\ ~scanInProgress') =>
          \/ ScanStartFail
          \/ /\ pending("scan") = {}
             /\ \E r \in pending("poll") : answeredPoll(r) /\ r.scan = Len(serverScans)]_vars

\* every poll request was issued for a scan the backend has started, and
\* every interval polls one of them
pollsOnlyStartedScans ==
    /\ \A l \in BagToSet(sent) : l.kind = "poll" => l.scan \in scanIds
    /\ \A i \in intervals : i.scan \in scanIds
    /\ Cardinality(intervals) <= Len(serverScans)

\* C20: a failed POST /api/phishing/scan sets the error message and
\* scanInProgress to false, creates no interval, leaves scanProgress as it
\* was and issues no request; no poll is ever issued but for a started scan.
C20_FailedScanStart ==
    [][/\ (ScanStartFail /\ mounted = "yes") =>
              /\ error' # Null
              /\ scanInProgress' = FALSE
              /\ intervals' = intervals
              /\ scanProgress' = scanProgress
              /\ serverScans' = serverScans
              /\ sent' = sent
       /\ pollsOnlyStartedScans']_vars

\* the first scan start has failed: the message is shown, the button is
\* enabled again and nothing polls
C20_Witness ==
    /\ mounted = "yes"
    /\ sentBy("startScan") = 1
    /\ pending("scan") = {}
    /\ serverScans = <<>>
    /\ error = "Error starting scan"
    /\ ~scanInProgress
    /\ intervals = {}
    /\ scanProgress = noProgress

\* ------------------------------------------- the claims on the pages

\* the number of pages of size records that hold the records of R
lastPage(R, size) == (Len(R) + size - 1) \div size

\* the page named by request r
pageAsked(r) == r.env.criteria.currentPage

\* the screen shows its empty-result view: neither the spinner, nor the
\* error view, nor a record
emptyViewShown == mounted = "yes" /\ ~loading /\ error = Null /\ sites.rows = <<>>

\* C12: pages are counted from 1, and an answer to a request for a page
\* above the last page of the result leaves the screen with an empty page
\* of records and the error state as it was, null
C12_PageBeyondLastIsEmpty ==
    [][/\ criteria'.currentPage >= 1
       /\ \A r \in pending("sites") : pageAsked(r) >= 1
       /\ \A r \in pending("sites"), R \in Collections :
            (served(r, R) /\ mounted = "yes" /\ pageAsked(r) > lastPage(R, pageSize)
                /\ pageAsked(r) > 1)
            => (sites'.rows = <<>> /\ error' = Null /\ ~loading')]_vars

\* page 2 was asked of a result of one page: the empty page is on screen
C12_Witness ==
    /\ emptyViewShown
    /\ sites.q = <<criteria>>
    /\ criteria.currentPage = 2
    /\ totalPages = 1
    /\ inflight = one(flying(statsRequest("mount", 0, closure)))

RECURSIVE shownOnPages(_, _, _, _, _)
\* the records shown on pages p..last of result R, where the page on
\* screen is page cur with records rows
shownOnPages(R, p, last, cur, rows) ==
    IF p > last THEN <<>>
    ELSE (IF p = cur THEN rows ELSE pageOfRecords(R, p, pageSize))
         \o shownOnPages(R, p + 1, last, cur, rows)

C14_EmptyResultIsNoError ==
    [][\A r \in pending("sites") :
          (served(r, <<>>) /\ mounted = "yes" /\ pageAsked(r) = 1)
          => (/\ sites'.rows = <<>>
              /\ totalPages' = 1
              /\ error' = Null
              /\ emptyViewShown')]_vars

\* page 1 of a result without records is on screen, after a search
C14_Witness ==
    /\ emptyViewShown
    /\ sites.q = <<criteria>>
    /\ criteria.currentPage = 1
    /\ criteria.searchQuery = "tamm"
    /\ totalPages = 1
    /\ inflight = one(flying(statsRequest("mount", 0, closure)))

\* ------------------------------------- the claims on overlapping fetches

\* no site-list request is on its way
sitesSettled == mounted = "yes" /\ pending("sites") = {}

\* C22: once every site-list request has been answered, none of them with
\* a failure, the records on screen are the answer to the request for the
\* current criteria, whatever the order of the answers
C22_NoStaleOverwrite ==
    (sitesSettled /\ error = Null) => sites.q = <<criteria>>

\* C23: at most one scan poll interval is scheduled, and none while
\* scanInProgress is false
C23_AtMostOnePollInterval ==
    /\ Cardinality(intervals) <= 1
    /\ (mounted = "yes" /\ ~scanInProgress) => intervals = {}

\* C24: whenever no site-list request is on its way, the current page is
\* one of the pages 1..totalPages
C24_CurrentPageInRange ==
    sitesSettled => (1 <= criteria.currentPage /\ criteria.currentPage <= totalPages)

\* C27: loading is true while a site-list request is on its way and false
\* when none is
C27_LoadingTracksFetches ==
    mounted = "yes" => (loading <=> pending("sites") # {})

\* ------------------------------------------ the claims on the error state

\* the error view is rendered on the phishing screen
errorViewShown == ~loading /\ Truthy(error)

criteriaEdit ==
    \/ SetSelectedCategory
    \/ SetSelectedSeverity
    \/ SetSelectedCVE
    \/ SetStartDate
    \/ SetEndDate

\* the filter of news under the criteria of the current state
filterNow ==
    handleSearchResult(news, selectedCategory, selectedSeverity, selectedCVE,
                       timeFilter, useDateRange, startDate, endDate, tz)

\* C29: an edit of category, severity, CVE, start date or end date leaves
\* filteredNews as it is; filteredNews changes only with the answer to the
\* news request, the time select or the Search click; and after these
\* filteredNews is the filter of news under the criteria of that moment
C29_EditsAloneDoNotRefilter ==
    [][/\ criteriaEdit => filteredNews' = filteredNews
       /\ filteredNews' # filteredNews => (FetchNewsOk \/ SetTimeFilter \/ SearchClick)
       /\ searchRan => filteredNews' =
            handleSearchResult(news', selectedCategory', selectedSeverity',
                               selectedCVE', timeFilter', useDateRange',
                               startDate', endDate', tz')]_vars

\* a category is selected and the list on screen is not yet filtered by it
C29_Witness ==
    /\ rendered
    /\ Len(news) > 0
    /\ selectedCategory # "All"
    /\ filteredNews # filterNow

\* ------------------------------------------ the claims on the threats view

\* the requests issued by the step, as they are on their way
issuedNow == inflight' (-) inflight

\* C21: every handleFilterChange and every clearFilters sets page to 1, and
\* the one request issued after it asks for page 1 with the new filters,
\* whatever page was shown before
C21_FilterChangeResetsPage ==
    [][(HandleFilterChange \/ ClearFilters)
       => (/\ page' = 1
           /\ issuedNow = one(flying(threatsRequest(1, filters'))))]_vars

\* page 2 is on screen and a request for page 1 under a changed filter is
\* on its way
C21_Witness ==
    /\ mounted = "yes"
    /\ threats.q = <<[page |-> 2, filters |-> defaultFilters]>>
    /\ page = 1
    /\ filters # defaultFilters
    /\ inflight = one(flying(threatsRequest(1, filters)))

\* C25: totalPages is an integer, and at least 1
C25_PageCountAtLeastOne ==
    mounted = "yes" => (~totalPages.nan /\ totalPages.n >= 1)

\* -------------------------------------------- the claims on the dashboard

\* stats, recentThreats and severeThreats hold their initial values
dashboardUntouched == stats = Null /\ recentThreats = <<>> /\ severeThreats = <<>>

\* C28: stats, recentThreats and severeThreats change only together, in the
\* step that follows three 2xx answers, and else stay at their initial
\* values; a failed load leaves the three alone, sets error and ends loading
C28_DashboardAllOrNothing ==
    /\ [](stats = Null => dashboardUntouched)
    /\ [][/\ <<stats, recentThreats, severeThreats>>' # <<stats, recentThreats, severeThreats>>
             => (DashboardLoaded /\ dashboardUntouched /\ stats' # Null /\ ~loading')
          /\ (DashboardFailed /\ mounted = "yes")
             => (/\ UNCHANGED <<stats, recentThreats, severeThreats>>
                 /\ error' # Null
                 /\ ~loading')]_vars

\* the third request was sent and the load failed: nothing is stored
C28_Witness ==
    /\ mounted = "yes"
    /\ BagCardinality(sent) = 3
    /\ inflight = EmptyBag
    /\ error # Null
    /\ ~loading
    /\ dashboardUntouched

\* -------------------------------------------- the claims on the mock scan

\* the progress intervals that are scheduled
progressIntervals == { t \in intervals : t.kind = "interval" }

\* C30: startScan sets scanProgress to 0 and scanInProgress to true; from
\* then on scanProgress stays within 0..100 and never decreases; the
\* interval is cleared in the tick that brings it to 100; and
\* scanInProgress becomes false only once scanProgress is 100
C30_MockScanProgress ==
    [][/\ scanProgress' \in 0..100
       /\ MockStartScan => (scanProgress' = 0 /\ scanInProgress')
       /\ ~MockStartScan => scanProgress' >= scanProgress
       /\ (scanProgress < 100 /\ scanProgress' = 100) => progressIntervals' = {}
       /\ (scanInProgress /\ ~scanInProgress') => scanProgress = 100]_vars

\* a scan has run to its end: 100 percent, the button enabled again and no
\* timer left
C30_Witness ==
    /\ mounted = "yes"
    /\ sentBy("startScan") = 1
    /\ scanProgress = 100
    /\ ~scanInProgress
    /\ intervals = {}

====
